---- MODULE Spec2Model ----
(***************************************************************************)
(* Model of the glTF importer of ozz-animation                              *)
(* (src/animation/offline/gltf/gltf2ozz.cc): the skeleton builder           *)
(* GltfImporter::Import(RawSkeleton) and the animation resampler           *)
(* GltfImporter::Import(animationName, skeleton, samplingRate, animation).  *)
(*                                                                          *)
(* Node indices, joint indices and key indices are 0-based as in the C++    *)
(* code; TLA+ sequences are 1-based, so element k of a C++ array a is       *)
(* a[k + 1] here.  Times are integers counted in ticks of                   *)
(* 1 / TicksPerSecond seconds.                                              *)
(***************************************************************************)
EXTENDS Integers, Sequences, FiniteSets, TLC

VARIABLES
  m_model,        \* tinygltf::Model m_model: the loaded scene (read-only)
  existingNames,  \* static unordered_map<string,int> of CreateJointName
  m_nodeNames,    \* unordered_map<int,string> m_nodeNames
  skeleton,       \* the caller's RawSkeleton after the last build
  skelResult,     \* what the last build returned: "none", "ok", "fail"
  animation,      \* the caller's RawAnimation after the last animation import
  animResult,     \* what it returned: "none", "ok", "fail", "crash"
  track,          \* a RawAnimation::JointTrack that one channel is sampled into
  outDuration,    \* the float& outDuration of SampleAnimationChannel
  chanInput,      \* the channel last handed to SampleAnimationChannel
  chanResult,     \* what SampleAnimationChannel returned: "none", "ok", "fail"
  cursors         \* the values of currentKey, one per destination key of the
                  \* last cubic-spline sampling (line 505)

vars == <<m_model, existingNames, m_nodeNames, skeleton, skelResult,
          animation, animResult, track, outDuration, chanInput, chanResult,
          cursors>>

skelVars == <<existingNames, m_nodeNames, skeleton, skelResult>>
animVars == <<animation, animResult>>
chanVars == <<track, outDuration, chanInput, chanResult, cursors>>

----------------------------------------------------------------------------
(* Bounds of the model *)

\* number of nodes of the scenes whose node names and hierarchy are enumerated
NumNodes == 3
\* largest number of source samples of a sampler
MaxSamples == 2
\* largest number of channels of an animation
MaxChannels == 2

(* Program constants *)

\* const float eps = 1e-6f, in ticks: a tick is a sixth of a microsecond, so
\* that a frame at 60 Hz or 30 Hz is a whole number of ticks
eps == 6
TicksPerSecond == eps * 1000000
\* samplingRate = 60.0f when the caller asks for 0 (automatic)
DefaultSamplingRate == 60

----------------------------------------------------------------------------
(* Generic helpers *)

EmptyMap == [k \in {} |-> 0]

\* std::unordered_map::insert: does nothing when the key is present
MapInsert(map, k, v) == IF k \in DOMAIN map THEN map ELSE map @@ (k :> v)

Min(S) == CHOOSE x \in S : \A y \in S : x <= y

RECURSIVE SortedSeq(_)
\* iteration order of a std::set<int>
SortedSeq(S) == IF S = {} THEN <<>> ELSE <<Min(S)>> \o SortedSeq(S \ {Min(S)})

Range(s) == {s[i] : i \in 1..Len(s)}

\* tinygltf::Node of a node index
Node(nodeIndex) == m_model.nodes[nodeIndex + 1]

----------------------------------------------------------------------------
(* SkeletonBuilder *)

\* CreateNodeTransform without the test of line 554: a matrix is ignored
CreateNodeTransformAnyMatrix(node) ==
  [ok |-> TRUE,
   transform |->
     [translation |-> IF node.translation # <<>> THEN node.translation
                      ELSE <<0, 0, 0>>,
      rotation    |-> IF node.rotation # <<>> THEN node.rotation
                      ELSE <<0, 0, 0, 1>>,
      scale       |-> IF node.scale # <<>> THEN node.scale
                      ELSE <<1, 1, 1>>]]

\* math::Transform::identity() and the node's own fields over it
CreateNodeTransform(node) ==
  IF Len(node.matrix) # 0
  THEN [ok |-> FALSE, transform |-> <<>>]
  ELSE [ok |-> TRUE,
        transform |->
          [translation |-> IF node.translation # <<>> THEN node.translation
                           ELSE <<0, 0, 0>>,
           rotation    |-> IF node.rotation # <<>> THEN node.rotation
                           ELSE <<0, 0, 0, 1>>,
           scale       |-> IF node.scale # <<>> THEN node.scale
                           ELSE <<1, 1, 1>>]]

\* the name given to a node that has none
SynthesizedName(nodeIndex) == "gltf_node_" \o ToString(nodeIndex)

\* the name given to a node whose name is already registered
DisambiguatedName(name, nodeIndex) == name \o "_" \o ToString(nodeIndex)

\* CreateJointName: st = [names |-> existingNames, nodeNames |-> m_nodeNames]
CreateJointName(st, nodeIndex) ==
  LET raw   == Node(nodeIndex).name
      name1 == IF raw = "" THEN SynthesizedName(nodeIndex) ELSE raw
      name  == IF name1 \in DOMAIN st.names
               THEN DisambiguatedName(name1, nodeIndex) ELSE name1
  IN  [name |-> name,
       st   |-> [names     |-> MapInsert(st.names, name, nodeIndex),
                 nodeNames |-> MapInsert(st.nodeNames, nodeIndex, name)]]

RECURSIVE ImportJoint(_, _), ImportChildrenFrom(_, _, _, _)

\* One joint: its name, its transform, then its children (lines 130-139 for
\* a root, 218-224 for a child).  The field node is not part of
\* RawSkeleton::Joint: it records the source node the joint was built from.
ImportJoint(st, nodeIndex) ==
  LET nm == CreateJointName(st, nodeIndex)
      tr == CreateNodeTransform(Node(nodeIndex))
  IN  IF ~tr.ok
      THEN [ok |-> FALSE, st |-> nm.st, joint |-> <<>>]
      ELSE LET ch == ImportChildrenFrom(nm.st, Node(nodeIndex).children, 1, <<>>)
           IN  [ok |-> ch.ok, st |-> ch.st,
                joint |-> [name |-> nm.name, node |-> nodeIndex,
                           transform |-> tr.transform,
                           children |-> ch.joints]]

\* the loop of ImportChildren over node.children, from position i on
ImportChildrenFrom(st, children, i, joints) ==
  IF i > Len(children)
  THEN [ok |-> TRUE, st |-> st, joints |-> joints]
  ELSE LET j == ImportJoint(st, children[i])
       IN  IF ~j.ok
           THEN [ok |-> FALSE, st |-> j.st, joints |-> joints]
           ELSE ImportChildrenFrom(j.st, children, i + 1, Append(joints, j.joint))

ImportChildren(st, node) == ImportChildrenFrom(st, node.children, 1, <<>>)

RECURSIVE InsertParents(_, _, _)
\* parents.insert(childIndex, nodeIndex) for the children of one joint
InsertParents(parents, nodeIndex, children) ==
  IF children = <<>> THEN parents
  ELSE InsertParents(MapInsert(parents, Head(children), nodeIndex),
                     nodeIndex, Tail(children))

RECURSIVE ParentsOf(_, _)
ParentsOf(parents, joints) ==
  IF joints = <<>> THEN parents
  ELSE ParentsOf(InsertParents(parents, Head(joints), Node(Head(joints)).children),
                 Tail(joints))

RECURSIVE ClimbToRoot(_, _)
ClimbToRoot(parents, rootBoneIndex) ==
  IF rootBoneIndex \in DOMAIN parents
  THEN ClimbToRoot(parents, parents[rootBoneIndex])
  ELSE rootBoneIndex

FindSkinRootJointIndex(skin) ==
  IF skin.joints = <<>> THEN -1
  ELSE ClimbToRoot(ParentsOf(EmptyMap, skin.joints), skin.joints[1])

RECURSIVE FoundFrom(_, _)
\* the set found of GetSkinsForScene: the nodes reachable from the open set
FoundFrom(open, found) ==
  IF open = {} THEN found
  ELSE LET nodeIndex == Min(open)
           found2    == found \cup {nodeIndex}
       IN  FoundFrom((open \ {nodeIndex}) \cup Range(Node(nodeIndex).children),
                     found2)

GetSkinsForScene(scene) ==
  LET found == FoundFrom(Range(scene.nodes), {})
  IN  SelectSeq(m_model.skins,
                LAMBDA skin : skin.joints # <<>> /\ skin.joints[1] \in found)

\* set<int> rootJoints of Import(RawSkeleton)
RootJoints(skins) ==
  {FindSkinRootJointIndex(skins[i]) : i \in 1..Len(skins)} \ {-1}

RECURSIVE FlattenJoints(_)
\* the joints of a list of joint trees, depth first, parents before children
FlattenJoints(joints) ==
  IF joints = <<>> THEN <<>>
  ELSE <<Head(joints)>> \o FlattenJoints(Head(joints).children)
                        \o FlattenJoints(Tail(joints))

\* RawSkeleton::Validate as the specification describes it: every joint name
\* is non-empty and no two joints share a name
Validate(roots) ==
  LET js == FlattenJoints(roots)
  IN  /\ \A i \in 1..Len(js) : js[i].name # ""
      /\ \A i, j \in 1..Len(js) : i # j => js[i].name # js[j].name

\* the RawSkeleton the caller hands to Import(RawSkeleton)
EmptySkeleton == [roots |-> <<>>]

RECURSIVE ImportRootsFrom(_, _, _, _)
\* the loop over rootJoints (lines 128-142), from position i on
ImportRootsFrom(st, rootSeq, i, roots) ==
  IF i > Len(rootSeq)
  THEN [ok |-> TRUE, st |-> st, roots |-> roots]
  ELSE LET j == ImportJoint(st, rootSeq[i])
       IN  IF ~j.ok
           THEN [ok |-> FALSE, st |-> j.st, roots |-> roots]
           ELSE ImportRootsFrom(j.st, rootSeq, i + 1, Append(roots, j.joint))

\* lines 148-155 without the test of Validate: the build always succeeds
ValidatedResultUnchecked(roots) == "ok"

\* lines 148-155: the build succeeds when the skeleton validates
ValidatedResult(roots) == IF Validate(roots) THEN "ok" ELSE "fail"

\* Import(RawSkeleton, types) on an empty RawSkeleton
ImportSkeletonResult(st) ==
  LET unchanged == [result |-> "fail", st |-> st, roots |-> <<>>]
  IN  IF m_model.scenes = <<>> THEN unchanged
      ELSE IF m_model.skins = <<>> THEN unchanged
      ELSE
        LET defaultScene == IF m_model.defaultScene = -1 THEN 0
                            ELSE m_model.defaultScene
            scene == m_model.scenes[defaultScene + 1]
        IN  IF scene.nodes = <<>> THEN unchanged
            ELSE
              LET skins == GetSkinsForScene(scene)
              IN  IF skins = <<>> THEN unchanged
                  ELSE
                    LET r == ImportRootsFrom(st, SortedSeq(RootJoints(skins)),
                                             1, <<>>)
                    IN  [result |-> IF r.ok THEN ValidatedResult(r.roots)
                                    ELSE "fail",
                         st     |-> r.st,
                         roots  |-> r.roots]

\* The caller builds the skeleton: Import(RawSkeleton), before it imports
\* any animation.  The call may be repeated in one process: the registry of
\* CreateJointName is static and m_nodeNames a member, so both outlive it.
ImportSkeleton ==
  /\ animResult = "none"
  /\ \E r \in {ImportSkeletonResult([names |-> existingNames,
                                    nodeNames |-> m_nodeNames])} :
         /\ skeleton' = [roots |-> r.roots]
         /\ skelResult' = r.result
         /\ existingNames' = r.st.names
         /\ m_nodeNames' = r.st.nodeNames
  /\ UNCHANGED <<m_model, animVars, chanVars>>

----------------------------------------------------------------------------
(* AnimationResampler: the per-channel samplers *)

Paths == {"translation", "rotation", "scale"}

\* tinygltf::GetComponentSizeInBytes(FLOAT) * GetTypeSizeInBytes(type)
ElementSize(accessor) ==
  CASE accessor.type = "SCALAR" -> 4
    [] accessor.type = "VEC3"   -> 12
    [] accessor.type = "VEC4"   -> 16
    [] OTHER                    -> 0

\* sizeof(KeyType::Value): math::Float3 or math::Quaternion
ValueSize(targetPath) == IF targetPath = "rotation" THEN 16 ELSE 12

\* BufferView<T>: the accessor's data, or nullptr (FALSE) when the element
\* size is not sizeof(T)
BufferViewOk(accessor, size) == ElementSize(accessor) = size

\* a value-initialized key, as vector::resize inserts it: time 0 and a zero
\* Float3 or the Quaternion its default constructor makes
ValueInitKey(targetPath) ==
  [time |-> 0,
   value |-> IF targetPath = "rotation" THEN <<0, 0, 0, 1>> ELSE <<0, 0, 0>>]

\* keyframes.resize(n): the first n keys kept, value-initialized keys added
Resize(keyframes, n, targetPath) ==
  [k \in 1..n |-> IF k <= Len(keyframes) THEN keyframes[k]
                  ELSE ValueInitKey(targetPath)]

\* SampleLinearChannel with push_back in place of resize and assignment: the
\* keys of the channel follow the keys the sequence held
SampleLinearChannelAppend(output, timestamps, keyframes, targetPath) ==
  keyframes \o [k \in 1..output.count |->
                  [time |-> timestamps[k], value |-> output.data[k]]]

\* SampleLinearChannel: the keys it leaves in keyframes
SampleLinearChannel(output, timestamps, keyframes, targetPath) ==
  LET resized == Resize(keyframes, output.count, targetPath)
  IN  [k \in 1..Len(resized) |->
         [time |-> timestamps[k], value |-> output.data[k]]]

\* SampleStepChannel: the keys it leaves in keyframes.  Key 2i is position
\* 2i + 1 of the sequence, key 2i + 1 is position 2i + 2.
SampleStepChannel(output, timestamps, keyframes, targetPath) ==
  LET numKeyframes == output.count * 2
      resized == Resize(keyframes, numKeyframes, targetPath)
  IN  [k \in 1..Len(resized) |->
         LET i == (k - 1) \div 2
         IN  IF k % 2 = 1
             THEN [time |-> timestamps[i + 1], value |-> output.data[i + 1]]
             ELSE IF i < output.count - 1
                  THEN [time  |-> timestamps[i + 2] - eps,
                        value |-> output.data[i + 1]]
                  ELSE resized[k]]

\* SampleHermiteSpline(t, p0, m0, p1, m1) is kept as the term of its
\* arguments: t is the fraction <<numerator, denominator>> in ticks, a
\* tangent is the pair of the source tangent and the segment duration that
\* scales it
SampleHermiteSpline(t, p0, m0, p1, m1) ==
  [fn |-> "hermite", t |-> t, p0 |-> p0, m0 |-> m0, p1 |-> p1, m1 |-> m1]

\* timestamps[k] and values[k] (0-based k): a read past the end of the
\* accessor's data yields whatever the buffer holds there
ReadTime(timestamps, k, garbage) ==
  IF k + 1 \in 1..Len(timestamps) THEN timestamps[k + 1] ELSE garbage.time

ReadValue(values, k, garbage) ==
  IF k + 1 \in 1..Len(values) THEN values[k + 1] ELSE garbage.value

RECURSIVE AdvanceCursor(_, _, _, _)
\* while (timestamps[currentKey] > time && currentKey < numKeyframes - 1)
AdvanceCursor(timestamps, currentKey, time, numKeyframes) ==
  IF timestamps[currentKey + 1] > time /\ currentKey < numKeyframes - 1
  THEN AdvanceCursor(timestamps, currentKey + 1, time, numKeyframes)
  ELSE currentKey

\* one destination key of SampleCubicSplineChannel (lines 505-516)
CubicKey(output, timestamps, currentKey, time, garbage) ==
  LET currentTime == timestamps[currentKey + 1]
      nextTime    == ReadTime(timestamps, currentKey + 1, garbage)
      t  == <<time - currentTime, nextTime - currentTime>>
      p0 == ReadValue(output.data, currentKey * 3 + 1, garbage)
      m0 == <<ReadValue(output.data, currentKey * 3 + 2, garbage),
              nextTime - currentTime>>
      p1 == ReadValue(output.data, (currentKey + 1) * 3 + 1, garbage)
      m1 == <<ReadValue(output.data, (currentKey + 1) * 3, garbage),
              nextTime - currentTime>>
  IN  [time |-> time, value |-> SampleHermiteSpline(t, p0, m0, p1, m1)]

RECURSIVE CubicLoop(_, _, _, _, _, _, _, _)
\* the loop over destination keys, from key i on: the keys written and the
\* value of currentKey at each of them
CubicLoop(output, timestamps, numKeys, samplingRate, garbage, i, currentKey, acc) ==
  IF i >= numKeys THEN acc
  ELSE LET time == (i * TicksPerSecond) \div samplingRate
           cur  == AdvanceCursor(timestamps, currentKey, time, output.count \div 3)
       IN  CubicLoop(output, timestamps, numKeys, samplingRate, garbage, i + 1, cur,
                     [keys |-> Append(acc.keys,
                                      CubicKey(output, timestamps, cur, time, garbage)),
                      cursors |-> Append(acc.cursors, cur)])

\* SampleCubicSplineChannel: floor(duration * samplingRate) + 1 keys
SampleCubicSplineChannel(output, timestamps, samplingRate, duration, garbage) ==
  CubicLoop(output, timestamps,
            (duration * samplingRate) \div TicksPerSecond + 1,
            samplingRate, garbage, 0, 0, [keys |-> <<>>, cursors |-> <<>>])

\* math::Normalize of a rotation key's value, kept as a term
Normalize(value) == [fn |-> "normalize", of |-> value]

\* a RawAnimation::JointTrack as constructed
EmptyTrack == [translations |-> <<>>, rotations |-> <<>>, scales |-> <<>>]

\* the key sequence of a track that a target path names
KeysOf(trk, targetPath) ==
  CASE targetPath = "translation" -> trk.translations
    [] targetPath = "rotation"    -> trk.rotations
    [] targetPath = "scale"       -> trk.scales

WithKeys(trk, targetPath, keys) ==
  CASE targetPath = "translation" -> [trk EXCEPT !.translations = keys]
    [] targetPath = "rotation"    -> [trk EXCEPT !.rotations = keys]
    [] targetPath = "scale"       -> [trk EXCEPT !.scales = keys]

\* lines 351-356 without the comparison: the last channel's duration
UpdateDurationLast(duration, outDuration0) == duration

\* lines 351-356: the running maximum of the channels' declared durations
UpdateDuration(duration, outDuration0) ==
  IF duration > outDuration0 THEN duration ELSE outDuration0

\* SampleAnimationChannel: what it returns, and outDuration and track after it
SampleAnimationChannel(sampler, targetPath, outDuration0, trk, samplingRate, garbage) ==
  LET input    == sampler.input
      output   == sampler.output
      duration == input.maxValues[1]
      dur      == UpdateDuration(duration, outDuration0)
      failed   == [ok |-> FALSE, duration |-> dur, track |-> trk, cursors |-> <<>>]
      done(keys) == [ok |-> TRUE, duration |-> dur,
                     track |-> WithKeys(trk, targetPath, keys), cursors |-> <<>>]
      \* the templated samplers return false when BufferView<ValueType> fails
      valuesOk == BufferViewOk(output, ValueSize(targetPath))
  IN  IF ~BufferViewOk(input, 4) THEN failed
      ELSE IF sampler.interpolation = "" \/ sampler.interpolation = "LINEAR"
      THEN IF targetPath \in Paths /\ valuesOk
           THEN done(SampleLinearChannel(output, input.data,
                                         KeysOf(trk, targetPath), targetPath))
           ELSE failed
      ELSE IF sampler.interpolation = "STEP"
      THEN IF targetPath \in Paths /\ valuesOk
           THEN done(SampleStepChannel(output, input.data,
                                       KeysOf(trk, targetPath), targetPath))
           ELSE failed
      ELSE IF sampler.interpolation = "CUBICSPLINE"
      THEN IF targetPath \in Paths /\ valuesOk
           THEN LET c == SampleCubicSplineChannel(output, input.data, samplingRate,
                                                  duration, garbage)
                    keys == IF targetPath = "rotation"
                            THEN [k \in 1..Len(c.keys) |->
                                    [time |-> c.keys[k].time,
                                     value |-> Normalize(c.keys[k].value)]]
                            ELSE c.keys
                IN  [ok |-> TRUE, duration |-> dur,
                     track |-> WithKeys(trk, targetPath, keys),
                     cursors |-> c.cursors]
           ELSE failed
      ELSE failed

----------------------------------------------------------------------------
(* AnimationResampler: Import(animationName, skeleton, samplingRate, animation) *)

\* the RawAnimation the caller hands to the import: a new object, with no
\* name, no track and the duration its constructor gives it
CallerAnimation == [name |-> "", duration |-> TicksPerSecond, tracks |-> <<>>]

\* skeleton.joint_names() of the runtime skeleton built from the RawSkeleton
JointNames == [i \in 1..Len(FlattenJoints(skeleton.roots)) |->
                 FlattenJoints(skeleton.roots)[i].name]

\* channelsPerJoint[name] after the loop of lines 294-301
ChannelsPerJoint(channels, name) ==
  SelectSeq(channels,
            LAMBDA channel : /\ channel.target_node # -1
                             /\ Node(channel.target_node).name = name)

\* FindNodeByName: the index of the node found, or -1 for nullptr
FindNodeByName(name) ==
  LET hits == {nodeIndex \in 0..(Len(m_model.nodes) - 1) :
                 /\ nodeIndex \in DOMAIN m_nodeNames
                 /\ m_nodeNames[nodeIndex] = name}
  IN  IF hits = {} THEN -1 ELSE Min(hits)

CreateTranslationBindPoseKey(node) ==
  [time |-> 0,
   value |-> IF node.translation # <<>> THEN node.translation ELSE <<0, 0, 0>>]

CreateRotationBindPoseKey(node) ==
  [time |-> 0,
   value |-> IF node.rotation # <<>> THEN node.rotation ELSE <<0, 0, 0, 1>>]

CreateScaleBindPoseKey(node) ==
  [time |-> 0,
   value |-> IF node.scale # <<>> THEN node.scale ELSE <<1, 1, 1>>]

\* lines 322-327: the bind pose key for each sequence left empty
PadTrack(trk, node) ==
  [translations |-> IF trk.translations = <<>>
                    THEN <<CreateTranslationBindPoseKey(node)>>
                    ELSE trk.translations,
   rotations    |-> IF trk.rotations = <<>>
                    THEN <<CreateRotationBindPoseKey(node)>>
                    ELSE trk.rotations,
   scales       |-> IF trk.scales = <<>>
                    THEN <<CreateScaleBindPoseKey(node)>>
                    ELSE trk.scales]

RECURSIVE SampleChannelsFrom(_, _, _, _, _, _)
\* the loop of lines 311-316 over one joint's channels, from position k on;
\* acc = [ok, duration, track]
SampleChannelsFrom(samplers, channels, k, acc, samplingRate, garbage) ==
  IF k > Len(channels) THEN acc
  ELSE LET channel == channels[k]
           r == SampleAnimationChannel(samplers[channel.sampler + 1],
                                       channel.target_path, acc.duration,
                                       acc.track, samplingRate, garbage)
       IN  IF ~r.ok
           THEN [ok |-> FALSE, duration |-> r.duration, track |-> r.track]
           ELSE SampleChannelsFrom(samplers, channels, k + 1,
                                   [ok |-> TRUE, duration |-> r.duration,
                                    track |-> r.track],
                                   samplingRate, garbage)

\* RawAnimation::Validate as the specification describes an output track:
\* the keys of every sequence are ordered by time, non-decreasing
AnimationValidate(anim) ==
  \A i \in 1..Len(anim.tracks) :
    \A keys \in {anim.tracks[i].translations, anim.tracks[i].rotations,
                 anim.tracks[i].scales} :
      \A k \in 1..(Len(keys) - 1) : keys[k].time <= keys[k + 1].time

RECURSIVE ImportTracksFrom(_, _, _, _, _, _)
\* The loop of lines 306-328 over the joints, from joint i (0-based) on.
\* anim is the RawAnimation so far.  ndebug tells whether assert is compiled
\* out; a null node is then dereferenced by the first bind pose key made.
ImportTracksFrom(gltfAnimation, i, anim, samplingRate, garbage, ndebug) ==
  IF i >= Len(JointNames)
  THEN [result |-> IF AnimationValidate(anim) THEN "ok" ELSE "fail",
        animation |-> anim]
  ELSE LET channels == ChannelsPerJoint(gltfAnimation.channels, JointNames[i + 1])
           r == SampleChannelsFrom(gltfAnimation.samplers, channels, 1,
                                   [ok |-> TRUE, duration |-> anim.duration,
                                    track |-> anim.tracks[i + 1]],
                                   samplingRate, garbage)
           sampled == [anim EXCEPT !.duration = r.duration,
                                   !.tracks[i + 1] = r.track]
           node == FindNodeByName(JointNames[i + 1])
           needsNode == \/ r.track.translations = <<>>
                        \/ r.track.rotations = <<>>
                        \/ r.track.scales = <<>>
       IN  IF ~r.ok THEN [result |-> "fail", animation |-> sampled]
           ELSE IF node = -1 /\ (~ndebug \/ needsNode)
           THEN [result |-> "crash", animation |-> sampled]
           ELSE ImportTracksFrom(
                  gltfAnimation, i + 1,
                  IF node = -1 THEN sampled
                  ELSE [sampled EXCEPT !.tracks[i + 1] = PadTrack(r.track, Node(node))],
                  samplingRate, garbage, ndebug)

\* Import(animationName, skeleton, samplingRate, animation) on CallerAnimation
ImportAnimationResult(animationName, samplingRate0, garbage, ndebug) ==
  LET samplingRate == IF samplingRate0 = 0 THEN DefaultSamplingRate
                      ELSE samplingRate0
      found == {a \in 1..Len(m_model.animations) :
                  m_model.animations[a].name = animationName}
  IN  IF found = {}
      THEN [result |-> "fail", animation |-> CallerAnimation]
      ELSE LET gltfAnimation == m_model.animations[Min(found)]
               anim0 == [name |-> gltfAnimation.name, duration |-> 0,
                         tracks |-> [j \in 1..Len(JointNames) |-> EmptyTrack]]
           IN  ImportTracksFrom(gltfAnimation, 0, anim0, samplingRate, garbage,
                                ndebug)

----------------------------------------------------------------------------
(* The scenes the skeleton builder is run on *)

\* node names: none, a plain name, a name of the disambiguated form and a
\* name of the synthesized form
NameChoices == {"", "a", "a_2", "gltf_node_1"}

NodeIds == 0..(NumNodes - 1)

IdentityMatrix == <<1, 0, 0, 0, 0, 1, 0, 0, 0, 0, 1, 0, 0, 0, 0, 1>>

\* the translation/rotation/scale fields node k declares: all three, none,
\* translation only, rotation and scale only, by k modulo 4
NodeTranslation(k) == IF k % 4 \in {0, 2} THEN <<k + 1, 2, 3>> ELSE <<>>
NodeRotation(k)    == IF k % 4 \in {0, 3} THEN <<0, 1, 0, 0>> ELSE <<>>
NodeScale(k)       == IF k % 4 \in {0, 3} THEN <<2, 2, k + 2>> ELSE <<>>

MkNode(k, name, children, hasMatrix) ==
  [name |-> name, children |-> children,
   matrix |-> IF hasMatrix THEN IdentityMatrix ELSE <<>>,
   translation |-> NodeTranslation(k), rotation |-> NodeRotation(k),
   scale |-> NodeScale(k)]

\* parent[k] is the parent of node k, a node of smaller index, or -1
ForestParents == {par \in [NodeIds -> -1..(NumNodes - 2)] :
                    \A k \in NodeIds : par[k] < k}

ChildrenOf(par, i) == SortedSeq({k \in DOMAIN par : par[k] = i})

NodesOf(names, par, matrixNode) ==
  [i \in 1..NumNodes |->
     MkNode(i - 1, names[i - 1], ChildrenOf(par, i - 1), matrixNode = i - 1)]

\* one skin holding every node, or one skin per node
SkinChoices ==
  { <<[joints |-> [i \in 1..NumNodes |-> i - 1]]>>,
    [i \in 1..NumNodes |-> [joints |-> <<i - 1>>]] }

\* the node that carries a matrix: none, the first or the last
MatrixChoices == {-1, 0, NumNodes - 1}

SceneOf(names, par, matrixNode, skins) ==
  [scenes |-> <<[nodes |-> ChildrenOf(par, -1)]>>, defaultScene |-> -1,
   nodes |-> NodesOf(names, par, matrixNode), skins |-> skins,
   animations |-> <<>>]

----------------------------------------------------------------------------
(* The samplers a channel is sampled from *)

\* the duration of a frame at the default sampling rate
Frame == TicksPerSecond \div DefaultSamplingRate

\* a gap between two source timestamps shorter than eps
ShortGap == eps \div 2

Interpolations == {"", "LINEAR", "STEP", "CUBICSPLINE", "SPHERICAL"}

\* n source timestamps, strictly increasing
Timestamps(start, gap, n) == [i \in 1..n |-> start + (i - 1) * gap]

\* count source values, all different
SourceValues(type, count) ==
  [k \in 1..count |-> IF type = "VEC3" THEN <<k, k + 1, k + 2>>
                      ELSE <<0, k, 0, k + 1>>]

\* A sampler with its two accessors.  The input accessor declares as its
\* maximum the last timestamp; the output accessor holds one value per
\* timestamp, or three (in-tangent, value, out-tangent) for CUBICSPLINE.
MkSampler(interpolation, start, gap, n, type) ==
  LET count == IF interpolation = "CUBICSPLINE" THEN 3 * n ELSE n
  IN  [interpolation |-> interpolation,
       input  |-> [count |-> n, type |-> "SCALAR",
                   maxValues |-> <<start + (n - 1) * gap>>,
                   data |-> Timestamps(start, gap, n)],
       output |-> [count |-> count, type |-> type,
                   data |-> SourceValues(type, count)]]

SamplerChoices ==
  { MkSampler(interpolation, start, gap, n, type) :
      interpolation \in Interpolations, start \in {0, Frame},
      gap \in {ShortGap, Frame}, n \in 1..MaxSamples, type \in {"VEC3", "VEC4"} }

\* what a read past the end of an accessor's data may yield
GarbageChoices ==
  { [time |-> t, value |-> v] : t \in {0, 3 * Frame}, v \in {"zeros", "junk"} }

\* the sampling rates SampleAnimationChannel is called with
RateChoices == {DefaultSamplingRate \div 2, DefaultSamplingRate}

\* a track that earlier LINEAR channels of the same joint have filled, with
\* more keys in each sequence than any sampler of SamplerChoices writes
FilledTrack ==
  LET n == 2 * MaxSamples + 1
      s3 == MkSampler("LINEAR", 0, Frame, n, "VEC3")
      s4 == MkSampler("LINEAR", 0, Frame, n, "VEC4")
      t1 == SampleAnimationChannel(s3, "translation", 0, EmptyTrack,
                                   DefaultSamplingRate, <<>>).track
      t2 == SampleAnimationChannel(s4, "rotation", 0, t1,
                                   DefaultSamplingRate, <<>>).track
  IN  SampleAnimationChannel(s3, "scale", 0, t2, DefaultSamplingRate, <<>>).track

\* the loop body of lines 311-316 for one channel: SampleAnimationChannel on
\* the joint's track and the animation's duration
SampleChannel ==
  /\ chanResult = "none"
  /\ \E sampler \in SamplerChoices, targetPath \in Paths \cup {"weights"},
        samplingRate \in RateChoices, garbage \in GarbageChoices :
       \E r \in {SampleAnimationChannel(sampler, targetPath, outDuration, track,
                                        samplingRate, garbage)} :
         /\ track' = r.track
         /\ outDuration' = r.duration
         /\ cursors' = r.cursors
         /\ chanResult' = IF r.ok THEN "ok" ELSE "fail"
         /\ chanInput' = [sampler |-> sampler, targetPath |-> targetPath,
                          samplingRate |-> samplingRate, before |-> track,
                          durationBefore |-> outDuration]
  /\ UNCHANGED <<m_model, skelVars, animVars>>

----------------------------------------------------------------------------
(* The scenes and animations the whole import is run on *)

\* Three nodes each.  In the first the joints 0 and 1 have names of their
\* own and node 2 is no joint; in the second joint 1 is unnamed; in the third
\* the joints 1 and 2 have the same name; in the fourth node 1 is a second
\* root and carries a matrix.
AnimationScenes ==
  LET node(k, name, children, hasMatrix) == MkNode(k, name, children, hasMatrix)
      scene(nodes, roots, skins) ==
        [scenes |-> <<[nodes |-> roots]>>, defaultScene |-> 0, nodes |-> nodes,
         skins |-> skins, animations |-> <<>>]
  IN  { scene(<<node(0, "a", <<1>>, FALSE), node(1, "b", <<>>, FALSE),
                node(2, "c", <<>>, FALSE)>>,
              <<0, 2>>, <<[joints |-> <<0, 1>>]>>),
        scene(<<node(0, "a", <<1>>, FALSE), node(1, "", <<2>>, FALSE),
                node(2, "c", <<>>, FALSE)>>,
              <<0>>, <<[joints |-> <<0, 1, 2>>]>>),
        scene(<<node(0, "a", <<1, 2>>, FALSE), node(1, "b", <<>>, FALSE),
                node(2, "b", <<>>, FALSE)>>,
              <<0>>, <<[joints |-> <<1, 0, 2>>]>>),
        scene(<<node(0, "a", <<2>>, FALSE), node(1, "b", <<>>, TRUE),
                node(2, "c", <<>>, FALSE)>>,
              <<0, 1>>, <<[joints |-> <<0, 2>>], [joints |-> <<1>>]>>) }

\* the samplers of the animation: LINEAR translations that end after one
\* frame, rotations of unspecified interpolation that end after two, STEP
\* translations that end after three
AnimationSamplers ==
  << MkSampler("LINEAR", 0, Frame, 2, "VEC3"),
     MkSampler("", 0, 2 * Frame, 2, "VEC4"),
     MkSampler("STEP", Frame, 2 * Frame, 2, "VEC3") >>

ChannelChoices ==
  [target_node : -1..2, target_path : {"translation", "rotation"},
   sampler : 0..(Len(AnimationSamplers) - 1)]

ChannelLists == UNION { [1..n -> ChannelChoices] : n \in 0..MaxChannels }

\* the name of the animation of the model
AnimationName == "walk"

\* what a read past the end of an accessor's data may yield in an import:
\* only the cubic-spline sampler reads there
GarbageOf(animations) ==
  IF \E a \in 1..Len(animations) : \E k \in 1..Len(animations[a].samplers) :
       animations[a].samplers[k].interpolation = "CUBICSPLINE"
  THEN GarbageChoices
  ELSE {[time |-> 0, value |-> "zeros"]}

\* The caller imports one named animation with the skeleton it has built,
\* into a new RawAnimation.  An import leaves nothing behind in the importer,
\* so one import from each state after the build shows all of them.
ImportAnimation ==
  /\ skelResult = "ok"
  /\ animResult = "none"
  /\ \E animationName \in {AnimationName, "run"},
        samplingRate \in {0, DefaultSamplingRate \div 2},
        garbage \in GarbageOf(m_model.animations), ndebug \in BOOLEAN :
       \E r \in {ImportAnimationResult(animationName, samplingRate, garbage,
                                       ndebug)} :
         /\ animation' = r.animation
         /\ animResult' = r.result
  /\ UNCHANGED <<m_model, skelVars, chanVars>>

\* the caller builds the skeleton once, as the first import of the process
BuildSkeleton == skelResult = "none" /\ ImportSkeleton

----------------------------------------------------------------------------
(* Initial states *)

NoSkeletonYet ==
  /\ existingNames = EmptyMap
  /\ m_nodeNames = EmptyMap
  /\ skeleton = EmptySkeleton
  /\ skelResult = "none"

NoAnimationYet ==
  /\ animation = CallerAnimation
  /\ animResult = "none"

NoChannelYet ==
  /\ track = EmptyTrack
  /\ outDuration = 0
  /\ chanInput = <<>>
  /\ chanResult = "none"
  /\ cursors = <<>>

\* Load, then the imports: the skeleton, then the animation
Init ==
  /\ \E scene \in AnimationScenes, channels \in ChannelLists :
       m_model = [scene EXCEPT !.animations =
                    <<[name |-> AnimationName, channels |-> channels,
                       samplers |-> AnimationSamplers]>>]
  /\ NoSkeletonYet /\ NoAnimationYet /\ NoChannelYet

Next == BuildSkeleton \/ ImportAnimation

Spec == Init /\ [][Next]_vars

InitSkel ==
  /\ \E par \in ForestParents, names \in [NodeIds -> NameChoices],
        matrixNode \in MatrixChoices, skins \in SkinChoices :
       m_model = SceneOf(names, par, matrixNode, skins)
  /\ NoSkeletonYet /\ NoAnimationYet /\ NoChannelYet

NextSkel == ImportSkeleton

SpecSkel == InitSkel /\ [][NextSkel]_vars

\* a model with nothing in it: the per-channel samplers read only the sampler
EmptyModel == [scenes |-> <<>>, defaultScene |-> -1, nodes |-> <<>>,
               skins |-> <<>>, animations |-> <<>>]

InitSampler ==
  /\ m_model = EmptyModel
  /\ NoSkeletonYet /\ NoAnimationYet
  /\ track \in {EmptyTrack, FilledTrack}
  /\ outDuration \in {0, 3 * Frame}
  /\ chanInput = <<>>
  /\ chanResult = "none"
  /\ cursors = <<>>

NextSampler == SampleChannel

SpecSampler == InitSampler /\ [][NextSampler]_vars

----------------------------------------------------------------------------
(* Properties of the skeleton build *)

\* the joints of the output skeleton
Joints == FlattenJoints(skeleton.roots)

NamesOnlyScene ==
  /\ \A k \in NodeIds :
       Cardinality({i \in NodeIds : k \in Range(Node(i).children)}) <= 1
  /\ Len(m_model.skins) = 1
  /\ GetSkinsForScene(m_model.scenes[1]) # <<>>
  /\ \A k \in NodeIds : Node(k).matrix = <<>>

\* C7: empty or duplicate node names are never fatal: on a tree-shaped scene
\* with a skin in the scene and no matrix, whatever the node names, the build
\* returns success.
C7_NamesNeverFatal ==
  (NamesOnlyScene /\ skelResult # "none") => skelResult = "ok"

\* the joints of the output skeleton that were built from node nodeIndex
JointsOf(nodeIndex) == {i \in 1..Len(Joints) : Joints[i].node = nodeIndex}

\* C11: the skeleton build terminates and the output forest is bounded by the
\* source node count: after a build that returns success each source node has
\* yielded at most one joint, also when the root of one skin is a descendant
\* of the root of another.
C11_OneJointPerNode ==
  skelResult = "ok" =>
    /\ Len(Joints) <= Len(m_model.nodes)
    /\ \A nodeIndex \in NodeIds : Cardinality(JointsOf(nodeIndex)) <= 1

\* C11 where the scene has one skin, and so one root: the case the traversal
\* gets right
C11_OneJointPerNodeOneRoot ==
  (skelResult = "ok" /\ Len(m_model.skins) = 1) =>
    \A nodeIndex \in NodeIds : Cardinality(JointsOf(nodeIndex)) <= 1

RECURSIVE Descendants(_, _)
\* the nodes of S and the nodes below them, at most depth levels down
Descendants(S, depth) ==
  IF depth = 0 THEN S
  ELSE Descendants(S \cup UNION {Range(Node(k).children) : k \in S}, depth - 1)

\* the nodes the traversal visits when no node stops it: the roots of the
\* skins of the scene and every node below one of them
VisitedNodes ==
  LET scene == m_model.scenes[1]
      roots == {r \in NodeIds :
                  \E i \in 1..Len(m_model.skins) :
                    /\ m_model.skins[i] \in Range(GetSkinsForScene(scene))
                    /\ FindSkinRootJointIndex(m_model.skins[i]) = r}
  IN  Descendants(roots, Len(m_model.nodes))

\* the translation, rotation and scale a node declares, with zero
\* translation, identity rotation and unit scale for a field it leaves out
DeclaredTransform(node) ==
  [translation |-> IF Len(node.translation) = 3 THEN node.translation
                   ELSE <<0, 0, 0>>,
   rotation    |-> IF Len(node.rotation) = 4 THEN node.rotation
                   ELSE <<0, 0, 0, 1>>,
   scale       |-> IF Len(node.scale) = 3 THEN node.scale ELSE <<1, 1, 1>>]

\* C12: when a node the traversal visits (a root of a skin or a node below
\* one, at any depth and under any root) carries a matrix the build returns
\* failure; and every joint that was built has as bind transform the
\* translation, rotation and scale of its node, with zero translation,
\* identity rotation and unit scale for a field the node leaves out.
C12_MatrixFailsAndDefaults ==
  skelResult # "none" =>
    /\ (\E k \in VisitedNodes : Node(k).matrix # <<>>) => skelResult = "fail"
    /\ \A i \in 1..Len(Joints) :
         /\ Node(Joints[i].node).matrix = <<>>
         /\ Joints[i].transform = DeclaredTransform(Node(Joints[i].node))

\* a build has failed on the matrix of a node that is a child, not a root,
\* after it had built the joint of another root with the transform its node
\* declares
C12_Witness ==
  /\ skelResult = "fail"
  /\ \E i \in 1..Len(Joints) :
       Joints[i].transform = DeclaredTransform(Node(Joints[i].node))
  /\ \E k \in VisitedNodes, p \in NodeIds :
       /\ Node(k).matrix # <<>>
       /\ k \in Range(Node(p).children)

\* C13: after a successful skeleton build FindNodeByName returns, for the name
\* of every joint of the skeleton, a node (never null), and the node the
\* joint was built from, also for a node that was named more than once and
\* after earlier builds have filled the name registry.
C13_FindNodeByName ==
  skelResult = "ok" =>
    \A i \in 1..Len(Joints) : FindNodeByName(Joints[i].name) = Joints[i].node

\* C13 for the first build of a process (the registry holds the names of
\* this build alone) on a scene with one skin, where no node is named twice
C13_FindNodeByNameFirstVisit ==
  (skelResult = "ok" /\ Len(m_model.skins) = 1
     /\ Cardinality(DOMAIN existingNames) = Len(Joints)) =>
    \A i \in 1..Len(Joints) : FindNodeByName(Joints[i].name) = Joints[i].node

----------------------------------------------------------------------------
(* Properties of the whole import *)

\* the channels of the animation that is imported
Channels == m_model.animations[1].channels

DeclaredMax(channel) ==
  m_model.animations[1].samplers[channel.sampler + 1].input.maxValues[1]

Max(S) == CHOOSE x \in S : \A y \in S : x >= y

\* the channels that target property targetPath of node nodeIndex, in order
Targeting(nodeIndex, targetPath) ==
  SelectSeq(Channels, LAMBDA c : c.target_node = nodeIndex
                                 /\ c.target_path = targetPath)

\* the node's own bind value of a property
BindValue(node, targetPath) ==
  CASE targetPath = "translation" ->
         IF node.translation = <<>> THEN <<0, 0, 0>> ELSE node.translation
    [] targetPath = "rotation" ->
         IF node.rotation = <<>> THEN <<0, 0, 0, 1>> ELSE node.rotation
    [] targetPath = "scale" ->
         IF node.scale = <<>> THEN <<1, 1, 1>> ELSE node.scale

\* C4: after a successful animation import, for every joint j and property p
\* that no channel targets on the node joint j was built from, track j's
\* sequence for p holds one key, at time 0, with the node's bind value.
C4_BindPoseKey ==
  animResult = "ok" =>
    \A j \in 1..Len(Joints) : \A p \in Paths :
      Targeting(Joints[j].node, p) = <<>> =>
        KeysOf(animation.tracks[j], p) =
          <<[time |-> 0, value |-> BindValue(Node(Joints[j].node), p)]>>

\* C4 where no channel targets a node that has the name of another node or
\* none: the case the grouping by node name gets right
C4_BindPoseKeyDistinctNames ==
  (/\ animResult = "ok"
   /\ \A k \in 1..Len(Channels) :
        Channels[k].target_node # -1 =>
          /\ Node(Channels[k].target_node).name # ""
          /\ \A i \in 0..(Len(m_model.nodes) - 1) :
               i # Channels[k].target_node =>
                 Node(i).name # Node(Channels[k].target_node).name) =>
    \A j \in 1..Len(Joints) : \A p \in Paths :
      Targeting(Joints[j].node, p) = <<>> =>
        KeysOf(animation.tracks[j], p) =
          <<[time |-> 0, value |-> BindValue(Node(Joints[j].node), p)]>>

\* every joint has the name of its node, and every channel has a target node
PlainNames ==
  /\ \A j \in 1..Len(Joints) : Joints[j].name = Node(Joints[j].node).name
  /\ \A k \in 1..Len(Channels) : Channels[k].target_node # -1

Processed ==
  {k \in 1..Len(Channels) :
     /\ Channels[k].target_node # -1
     /\ \E j \in 1..Len(Joints) :
          Node(Channels[k].target_node).name = Joints[j].name}

C6_FailsAtomically ==
  /\ skelResult = "fail" => skeleton = EmptySkeleton
  /\ animResult = "fail" => animation = CallerAnimation

\* the animation half of C6 alone
C6_AnimationUntouched ==
  animResult = "fail" => animation = CallerAnimation

\* the keys a LINEAR sampler holds
SamplerKeys(sampler) ==
  [k \in 1..sampler.input.count |->
     [time |-> sampler.input.data[k], value |-> sampler.output.data[k]]]

\* C9: the keys sampled from a channel that targets node N are written to
\* the track of the joint built from N, and to no other joint's track.
C9_GroupedByJoint ==
  animResult = "ok" =>
    \A j \in 1..Len(Joints) : \A p \in Paths :
      LET mine == Targeting(Joints[j].node, p)
      IN  KeysOf(animation.tracks[j], p) =
            IF mine = <<>>
            THEN <<[time |-> 0, value |-> BindValue(Node(Joints[j].node), p)]>>
            ELSE SamplerKeys(m_model.animations[1].samplers[
                               mine[Len(mine)].sampler + 1])

----------------------------------------------------------------------------
(* Properties of the per-channel samplers *)

Sampled(interpolations) ==
  /\ chanResult = "ok"
  /\ chanInput.sampler.interpolation \in interpolations

SrcTime(i)  == chanInput.sampler.input.data[i + 1]
SrcValue(i) == chanInput.sampler.output.data[i + 1]
SrcCount    == chanInput.sampler.input.count
DstKeys     == KeysOf(track, chanInput.targetPath)
\* destination key k, 0-based
DstKey(k)   == DstKeys[k + 1]

\* C2: STEP sampling of n >= 2 source samples leaves exactly 2n - 1 keys:
\* key 2i has time[i] and value[i], key 2i + 1 has time[i + 1] - eps and the
\* value of key 2i, and there is no key after key 2(n - 1).
C2_StepKeys ==
  (Sampled({"STEP"}) /\ SrcCount >= 2) =>
    /\ Len(DstKeys) = 2 * SrcCount - 1
    /\ \A i \in 0..(SrcCount - 1) :
         /\ 2 * i + 1 <= Len(DstKeys)
         /\ DstKey(2 * i) = [time |-> SrcTime(i), value |-> SrcValue(i)]
    /\ \A i \in 0..(SrcCount - 2) :
         /\ 2 * i + 2 <= Len(DstKeys)
         /\ DstKey(2 * i + 1) = [time |-> SrcTime(i + 1) - eps,
                                 value |-> DstKey(2 * i).value]

\* what STEP sampling does leave: the 2n - 1 keys of C2 and one more key
C2_StepKeysOfCode ==
  (Sampled({"STEP"}) /\ SrcCount >= 2) =>
    /\ Len(DstKeys) = 2 * SrcCount
    /\ \A i \in 0..(SrcCount - 1) :
         DstKey(2 * i) = [time |-> SrcTime(i), value |-> SrcValue(i)]
    /\ \A i \in 0..(SrcCount - 2) :
         DstKey(2 * i + 1) = [time |-> SrcTime(i + 1) - eps,
                              value |-> DstKey(2 * i).value]
    /\ DstKey(2 * SrcCount - 1) =
         Resize(KeysOf(chanInput.before, chanInput.targetPath),
                2 * SrcCount, chanInput.targetPath)[2 * SrcCount]

\* C3: LINEAR sampling (interpolation LINEAR or unspecified) of n source
\* samples leaves exactly n keys, key i with time[i] and value[i].
C3_LinearKeys ==
  Sampled({"", "LINEAR"}) =>
    /\ Len(DstKeys) = SrcCount
    /\ \A i \in 0..(SrcCount - 1) :
         DstKey(i) = [time |-> SrcTime(i), value |-> SrcValue(i)]

\* a LINEAR channel of two or more samples was sampled into a sequence that
\* held more keys than it has samples
C3_Witness ==
  /\ Sampled({"", "LINEAR"})
  /\ SrcCount >= 2
  /\ Len(KeysOf(chanInput.before, chanInput.targetPath)) > SrcCount

TimeOrdered(keys) ==
  \A k \in 1..(Len(keys) - 1) : keys[k].time <= keys[k + 1].time

\* C8: in a track the samplers have written, the keys of each of the three
\* sequences are ordered by time, non-decreasing.
C8_TimeOrdered ==
  chanResult = "ok" =>
    /\ TimeOrdered(track.translations)
    /\ TimeOrdered(track.rotations)
    /\ TimeOrdered(track.scales)

\* C8 for the LINEAR and CUBICSPLINE samplers alone
C8_TimeOrderedNoStep ==
  Sampled({"", "LINEAR", "CUBICSPLINE"}) =>
    /\ TimeOrdered(track.translations)
    /\ TimeOrdered(track.rotations)
    /\ TimeOrdered(track.scales)

\* C10: in CUBICSPLINE sampling of m source samples the cursor currentKey
\* never decreases and never exceeds m - 2, the second-to-last sample, so
\* that timestamps[currentKey + 1] is one of the m source timestamps.  Stated
\* for m >= 2, where there is a second-to-last sample.
C10_CursorInRange ==
  (Sampled({"CUBICSPLINE"}) /\ SrcCount >= 2) =>
    /\ \A i \in 1..(Len(cursors) - 1) : cursors[i] <= cursors[i + 1]
    /\ \A i \in 1..Len(cursors) : cursors[i] <= SrcCount - 2

\* the part of C10 the code keeps: the cursor never decreases and stays
\* within the m source samples
C10_CursorMonotonic ==
  Sampled({"CUBICSPLINE"}) =>
    /\ \A i \in 1..(Len(cursors) - 1) : cursors[i] <= cursors[i + 1]
    /\ \A i \in 1..Len(cursors) : cursors[i] <= SrcCount - 1

====
